---- MODULE Spec2Model ----
(***************************************************************************)
(* A model of the evobattle core models: src/src/models/stats.py (Stats,   *)
(* StatModifier, StatGrowth) and src/src/models/evolution.py               *)
(* (EvolutionPath, EvolutionSystem).                                       *)
(*                                                                         *)
(* Python floats: a multiplier or a growth rate is an integer number of    *)
(* tenths (MultDen), and int(x) is truncation toward zero.  The hp-ratio   *)
(* rescale of Stats.apply_modifier, int(max_hp * (hp / max_hp)), is        *)
(* computed with the two IEEE-754 double roundings it goes through         *)
(* (HpRescale).  The other float expressions are computed exactly; on the  *)
(* values the model constructs the exact and the double results coincide.  *)
(*                                                                         *)
(* Stats objects live in a heap (heap: object id -> fields) so that        *)
(* copying and in-place mutation are distinguishable.                      *)
(*                                                                         *)
(* Specifications:                                                         *)
(*   Spec          the EvolutionSystem registry and one creature           *)
(*   SpecPath      EvolutionPath.can_evolve on constructed inputs          *)
(*   SpecStats     Stats.heal / take_damage / apply_modifier               *)
(*   SpecModifier  StatModifier.tick / is_expired                          *)
(*   SpecRescale   Stats.apply_modifier over a range of hp / max_hp        *)
(*   SpecGrowth    StatGrowth.calculate_stats_at_level                     *)
(*   SpecBreed     GeneticsSystem.breed with every random outcome          *)
(***************************************************************************)
EXTENDS Integers, Sequences, FiniteSets, TLC

VARIABLES
    creature_types,   \* EvolutionSystem.creature_types: name -> CreatureType
    evolution_paths,  \* EvolutionSystem.evolution_paths: list of EvolutionPath
    creature,         \* the creature the system is used on
    heap,       \* Stats objects: "self" (the receiver) and "modified" (last apply_modifier result)
    modifier,   \* the StatModifier object
    growth,     \* the StatGrowth object
    genetics,   \* the GeneticsSystem object
    ticks,      \* number of tick() calls made on modifier since construction
    call,       \* the last call made: its name and arguments
    ret,        \* the value the last call returned
    prev,       \* the object the last call acted on, as it was just before the call
                \* (after breed: its local list `inherited`, before duplicates are removed)
    chain,      \* after take_damage(a) that directly follows heal(a) on the same
                \* object: that object's fields before the heal; NoStats otherwise
    lineage     \* the species names creature has had so far, its present one included

evoVars == <<creature_types, evolution_paths, creature>>
statVars == <<heap, modifier, ticks, chain>>
vars == <<creature_types, evolution_paths, creature, heap, modifier, growth, genetics, ticks, call, ret, prev, chain, lineage>>

(***************************** bounds ***************************************)
MaxHP == 3          \* max_hp of the vectors Init constructs: 0..MaxHP
MaxAmount == 3      \* heal / take_damage amounts: 0..MaxAmount
MaxDuration == 3    \* modifier durations Init constructs: -1..MaxDuration
MaxTicks == 5       \* tick() calls per behaviour
MaxPaths == 2       \* add_evolution_path calls per behaviour
MaxRescaleHP == 24  \* max_hp of the vectors InitRescale constructs: 0..MaxRescaleHP
MaxLevel == 4       \* levels passed to calculate_stats_at_level: 1..MaxLevel

(* Denominator of the rational representation of floats: 1.5 is 15. *)
MultDen == 10

Min(a, b) == IF a < b THEN a ELSE b
Max(a, b) == IF a > b THEN a ELSE b

(* Python int(x) for x = num / den, den > 0: truncation toward zero. *)
PyInt(num, den) == IF num >= 0 THEN num \div den ELSE -((-num) \div den)

NoStats == [none |-> TRUE]
NoCall == [op |-> "none", target |-> "none", amount |-> 0]
NoCreature == [none |-> TRUE]
NoPath == [none |-> TRUE]
NoHeap == [self |-> NoStats, modified |-> NoStats]
NoGrowth == [none |-> TRUE]
NoGenetics == [none |-> TRUE]

(* An empty dict, and dict[k] = v. *)
EmptyDict == [k \in {} |-> NoStats]
DictSetDefault(d, k, v) == [n \in DOMAIN d \cup {k} |-> IF n \in DOMAIN d THEN d[n] ELSE v]
DictSet(d, k, v) == [n \in DOMAIN d \cup {k} |-> IF n = k THEN v ELSE d[n]]

(****************************** Stats ***************************************)
(* Stats(...) with __post_init__: hp is clamped to max_hp. *)
Stats(hp, max_hp, attack, defense, speed, special_attack, special_defense) ==
    [hp |-> IF hp > max_hp THEN max_hp ELSE hp,
     max_hp |-> max_hp,
     attack |-> attack,
     defense |-> defense,
     speed |-> speed,
     special_attack |-> special_attack,
     special_defense |-> special_defense]

(* Stats.copy: a new object ("modified") built by the constructor from the
   fields of object id.  Returns the new object's id and the heap. *)
Copy(h, id) ==
    [id |-> "modified",
     heap |-> [h EXCEPT !["modified"] =
                 Stats(h[id].hp, h[id].max_hp, h[id].attack, h[id].defense,
                       h[id].speed, h[id].special_attack, h[id].special_defense)]]

(* int(stat * multiplier + bonus), multiplier in tenths. *)
ScaleStatAddFirst(old, multiplier, bonus) == PyInt((old + bonus) * multiplier, MultDen)
ScaleStat(old, multiplier, bonus) == PyInt(old * multiplier + bonus * MultDen, MultDen)

Abs(a) == IF a < 0 THEN -a ELSE a

(* 2^k, and 2^k mod n (by repeated doubling, so that no intermediate value
   leaves the machine integers). *)
RECURSIVE Pow2(_)
Pow2(k) == IF k = 0 THEN 1 ELSE 2 * Pow2(k - 1)
RECURSIVE Pow2Mod(_, _)
Pow2Mod(k, n) == IF k = 0 THEN 1 % n ELSE (2 * Pow2Mod(k - 1, n)) % n

(* Number of bits of the significand of a double. *)
DoubleBits == 53

(* The binary exponent of the double hp / max_hp, negated: the least e >= 0
   with hp * 2^e >= max_hp, for 0 < hp <= max_hp. *)
RECURSIVE RatioExponent(_, _, _)
RatioExponent(hp, max_hp, e) ==
    IF hp * Pow2(e) >= max_hp THEN e ELSE RatioExponent(hp, max_hp, e + 1)

(* The least p >= -1 with n <= 2^(p+1): the doubles just below the integer
   n >= 1 are spaced 2^(p - 52) apart. *)
RECURSIVE ExponentBelow(_, _)
ExponentBelow(n, p) == IF n <= Pow2(p + 1) THEN p ELSE ExponentBelow(n, p + 1)

(* hp_ratio = self.hp / self.max_hp as a double, for 0 < hp <= max_hp.  The
   double is M / 2^k with k = 52 + e and M the integer nearest to
   hp * 2^k / max_hp; the value returned is  hp * 2^k - M * max_hp,  the
   rounding error of the division in units of 1 / (max_hp * 2^k): positive
   when the double is below the exact quotient.  (No tie occurs: 2^k is far
   above max_hp.) *)
RatioError(hp, max_hp) ==
    LET k == (DoubleBits - 1) + RatioExponent(hp, max_hp, 0)
        t == (hp * Pow2Mod(k, max_hp)) % max_hp
    IN  IF 2 * t < max_hp THEN t ELSE t - max_hp

(* int(modified.max_hp * hp_ratio) for a double hp_ratio of hp / max_hp with
   0 < hp <= max_hp and new_max_hp > 0.  When new_max_hp * hp / max_hp is not
   an integer the rounding errors are too small to change the truncation.
   When it is an integer n, the exact product of new_max_hp and the double
   ratio is  n - new_max_hp * r / (max_hp * 2^k)  with r = RatioError; it
   rounds to a double below n, and int() yields n - 1, exactly when that
   distance exceeds half the spacing 2^(p - 52) of the doubles below n
   (a tie rounds to n, whose significand is even). *)
RescaleMagnitude(new_max_hp, hp, max_hp) ==
    LET n == (new_max_hp * hp) \div max_hp
        e == RatioExponent(hp, max_hp, 0)
        p == ExponentBelow(n, -1)
        r == RatioError(hp, max_hp)
    IN  IF (new_max_hp * hp) % max_hp # 0 THEN n
        ELSE IF r > 0 /\ 4 * new_max_hp * r > max_hp * Pow2(e + p + 1)
             THEN n - 1
             ELSE n

(* The result at full health whatever the ratio. *)
HpRescaleFull(new_max_hp, hp, max_hp) == new_max_hp
HpRescaleCopy(new_max_hp, hp, max_hp) == hp
HpRescaleZeroRatio(new_max_hp, hp, max_hp) ==
    IF max_hp <= 0 \/ hp = 0 \/ new_max_hp = 0 THEN 0
    ELSE LET mag == RescaleMagnitude(Abs(new_max_hp), Abs(hp), max_hp)
         IN  IF (new_max_hp < 0) = (hp < 0) THEN mag ELSE -mag

(* hp_ratio = self.hp / self.max_hp if self.max_hp > 0 else 1.0
   int(modified.max_hp * hp_ratio) *)
HpRescale(new_max_hp, hp, max_hp) ==
    IF max_hp <= 0 THEN new_max_hp
    ELSE IF hp = 0 \/ new_max_hp = 0 THEN 0
    ELSE LET mag == RescaleMagnitude(Abs(new_max_hp), Abs(hp), max_hp)
         IN  IF (new_max_hp < 0) = (hp < 0) THEN mag ELSE -mag

(* modified.hp = int(modified.max_hp * hp_ratio), hp_ratio read from self. *)
SetRescaledHp(h, self, modified) ==
    [h EXCEPT ![modified].hp = HpRescale(h[modified].max_hp, h[self].hp, h[self].max_hp)]

(* Stats.apply_modifier on object self of heap h with modifier m: the
   assignments of the method in order.  Returns the result's id and the heap. *)
ApplyModifier(h, self, m) ==
    LET c == Copy(h, self)
        h1 == [c.heap EXCEPT ![c.id].attack =
                 ScaleStat(@, m.attack_multiplier, m.attack_bonus)]
        h2 == [h1 EXCEPT ![c.id].defense =
                 ScaleStat(@, m.defense_multiplier, m.defense_bonus)]
        h3 == [h2 EXCEPT ![c.id].speed =
                 ScaleStat(@, m.speed_multiplier, m.speed_bonus)]
        h4 == [h3 EXCEPT ![c.id].special_attack =
                 ScaleStat(@, m.special_attack_multiplier, m.special_attack_bonus)]
        h5 == [h4 EXCEPT ![c.id].special_defense =
                 ScaleStat(@, m.special_defense_multiplier, m.special_defense_bonus)]
        h6 == [h5 EXCEPT ![c.id].max_hp =
                 ScaleStat(@, m.max_hp_multiplier, m.max_hp_bonus)]
    IN  [id |-> c.id, heap |-> SetRescaledHp(h6, self, c.id)]

(* Stats.heal: returns the heap and the amount actually healed. *)
HealNoClamp(h, id, amount) ==
    [heap |-> [h EXCEPT ![id].hp = h[id].hp + amount], ret |-> amount]
Heal(h, id, amount) ==
    LET old_hp == h[id].hp
        new_hp == Min(h[id].hp + amount, h[id].max_hp)
    IN  [heap |-> [h EXCEPT ![id].hp = new_hp], ret |-> new_hp - old_hp]

(* Stats.take_damage: returns the heap and the damage actually taken. *)
TakeDamageNoClamp(h, id, amount) ==
    [heap |-> [h EXCEPT ![id].hp = h[id].hp - amount], ret |-> amount]
TakeDamageSwapped(h, id, amount) ==
    LET old_hp == h[id].hp
        new_hp == Max(0, amount - h[id].hp)
    IN  [heap |-> [h EXCEPT ![id].hp = new_hp], ret |-> old_hp - new_hp]
TakeDamage(h, id, amount) ==
    LET old_hp == h[id].hp
        new_hp == Max(0, h[id].hp - amount)
    IN  [heap |-> [h EXCEPT ![id].hp = new_hp], ret |-> old_hp - new_hp]

(**************************** StatModifier **********************************)
(* StatModifier(...): the dataclass fields, multipliers in tenths. *)
StatModifier(name, duration, am, ab, dm, db, sm, sb, sam, sab, sdm, sdb, hm, hb) ==
    [name |-> name, duration |-> duration,
     attack_multiplier |-> am, attack_bonus |-> ab,
     defense_multiplier |-> dm, defense_bonus |-> db,
     speed_multiplier |-> sm, speed_bonus |-> sb,
     special_attack_multiplier |-> sam, special_attack_bonus |-> sab,
     special_defense_multiplier |-> sdm, special_defense_bonus |-> sdb,
     max_hp_multiplier |-> hm, max_hp_bonus |-> hb]

(* StatModifier.is_expired *)
IsExpired(m) == m.duration = 0

(* StatModifier.tick *)
TickUnguarded(m) == [m EXCEPT !.duration = m.duration - 1]
Tick(m) == IF m.duration > 0 THEN [m EXCEPT !.duration = m.duration - 1] ELSE m

(* The modifiers the model constructs (duration d): the all-default one, the
   buffs of the tests, and debuffs with fractional multipliers and negative
   bonuses (which can take a stat, max_hp included, below zero), every stat
   with its own multiplier and bonus. *)
ModifierPool(d) ==
    { StatModifier("Modifier", d, 10, 0, 10, 0, 10, 0, 10, 0, 10, 0, 10, 0),
      StatModifier("Battle Rage", d, 15, 5, 12, 3, 10, 0, 10, 0, 10, 0, 10, 0),
      StatModifier("Mixed", d, 15, 1, 5, -1, 20, 0, 11, 2, 9, -2, 12, 3),
      StatModifier("Curse", d, 5, -2, 10, -3, 3, 0, 10, 0, 7, 1, 5, -2) }

Durations == (-1) .. MaxDuration

(* The (attack, defense, speed, special_attack, special_defense) values of
   the vectors Init constructs: the dataclass defaults and a mixed profile. *)
StatProfiles == { <<10, 10, 10, 10, 10>>, <<1, 1, 3, 7, 0>> }

(************************* the Stats operations *****************************)
InitStats ==
    /\ \E max_hp \in 0 .. MaxHP, hp \in 0 .. MaxHP, p \in StatProfiles :
          heap = [self |-> Stats(hp, max_hp, p[1], p[2], p[3], p[4], p[5]),
                  modified |-> NoStats]
    /\ modifier \in ModifierPool(-1)
    /\ ticks = 0
    /\ call = NoCall
    /\ ret = 0
    /\ prev = NoStats
    /\ chain = NoStats
    /\ lineage = {}
    /\ growth = NoGrowth
    /\ genetics = NoGenetics
    /\ creature_types = EmptyDict
    /\ evolution_paths = <<>>
    /\ creature = NoCreature

DoHeal(t, a) ==
    /\ heap[t] # NoStats
    /\ heap' = Heal(heap, t, a).heap
    /\ ret' = Heal(heap, t, a).ret
    /\ call' = [op |-> "heal", target |-> t, amount |-> a]
    /\ prev' = heap[t]
    /\ chain' = NoStats
    /\ UNCHANGED <<modifier, ticks>>
    /\ UNCHANGED evoVars
    /\ UNCHANGED <<growth, genetics, lineage>>

DoTakeDamage(t, a) ==
    /\ heap[t] # NoStats
    /\ heap' = TakeDamage(heap, t, a).heap
    /\ ret' = TakeDamage(heap, t, a).ret
    /\ call' = [op |-> "take_damage", target |-> t, amount |-> a]
    /\ prev' = heap[t]
    /\ chain' = IF call.op = "heal" /\ call.target = t /\ call.amount = a
                THEN prev ELSE NoStats
    /\ UNCHANGED <<modifier, ticks>>
    /\ UNCHANGED evoVars
    /\ UNCHANGED <<growth, genetics, lineage>>

DoApplyModifier ==
    /\ heap' = ApplyModifier(heap, "self", modifier).heap
    /\ ret' = 0
    /\ call' = [op |-> "apply_modifier", target |-> ApplyModifier(heap, "self", modifier).id,
                amount |-> 0]
    /\ prev' = heap["self"]
    /\ chain' = NoStats
    /\ UNCHANGED <<modifier, ticks>>
    /\ UNCHANGED evoVars
    /\ UNCHANGED <<growth, genetics, lineage>>

NextStats ==
    \/ \E t \in {"self", "modified"}, a \in 0 .. MaxAmount : DoHeal(t, a)
    \/ \E t \in {"self", "modified"}, a \in 0 .. MaxAmount : DoTakeDamage(t, a)
    \/ DoApplyModifier

SpecStats == InitStats /\ [][NextStats]_vars

(****************** apply_modifier over a range of hp ratios ****************)
(* The hp and max_hp of the vectors InitRescale constructs: 0 <= hp <= max_hp
   <= MaxRescaleHP. *)
InitRescale ==
    /\ \E max_hp \in 0 .. MaxRescaleHP, p \in StatProfiles :
          \E hp \in 0 .. max_hp :
             heap = [self |-> Stats(hp, max_hp, p[1], p[2], p[3], p[4], p[5]),
                     modified |-> NoStats]
    /\ modifier \in ModifierPool(-1)
    /\ ticks = 0
    /\ call = NoCall
    /\ ret = 0
    /\ prev = NoStats
    /\ chain = NoStats
    /\ lineage = {}
    /\ growth = NoGrowth
    /\ genetics = NoGenetics
    /\ creature_types = EmptyDict
    /\ evolution_paths = <<>>
    /\ creature = NoCreature

NextRescale == DoApplyModifier

SpecRescale == InitRescale /\ [][NextRescale]_vars

(*********************** the StatModifier operations ************************)
InitModifier ==
    /\ \E d \in Durations : modifier \in ModifierPool(d)
    /\ ticks = 0
    /\ heap = NoHeap
    /\ call = NoCall
    /\ ret = 0
    /\ prev = modifier
    /\ chain = NoStats
    /\ lineage = {}
    /\ growth = NoGrowth
    /\ genetics = NoGenetics
    /\ creature_types = EmptyDict
    /\ evolution_paths = <<>>
    /\ creature = NoCreature

DoTick ==
    /\ ticks < MaxTicks
    /\ modifier' = Tick(modifier)
    /\ ticks' = ticks + 1
    /\ call' = [op |-> "tick", target |-> "modifier", amount |-> 0]
    /\ UNCHANGED <<heap, ret, prev, chain>>
    /\ UNCHANGED evoVars
    /\ UNCHANGED <<growth, genetics, lineage>>

NextModifier == DoTick

SpecModifier == InitModifier /\ [][NextModifier]_vars

(***************************** StatGrowth ***********************************)
(* StatGrowth(...): six per-level rates (in tenths) and the curve tag. *)
StatGrowth(hp_growth, attack_growth, defense_growth, speed_growth, special_attack_growth, special_defense_growth, growth_curve) ==
    [hp_growth |-> hp_growth, attack_growth |-> attack_growth,
     defense_growth |-> defense_growth, speed_growth |-> speed_growth,
     special_attack_growth |-> special_attack_growth,
     special_defense_growth |-> special_defense_growth,
     growth_curve |-> growth_curve]

(* StatGrowth._get_growth_multiplier, in tenths: curves.get(curve, 1.0). *)
GetGrowthMultiplierIgnoreCurve(g) == 10
GetGrowthMultiplier(g) ==
    CASE g.growth_curve = "slow" -> 8
      [] g.growth_curve = "medium_slow" -> 9
      [] g.growth_curve = "medium_fast" -> 10
      [] g.growth_curve = "fast" -> 12
      [] OTHER -> 10

(* The same accumulated level by level, each level's gain truncated. *)
RECURSIVE GrowStatCumulative(_, _, _, _)
GrowStatCumulative(base, rate, level, growth_multiplier) ==
    IF level <= 1 THEN base
    ELSE GrowStatCumulative(base, rate, level - 1, growth_multiplier)
           + PyInt(rate * growth_multiplier, MultDen * MultDen)
(* The same growing from level 0. *)
GrowStatFromZero(base, rate, level, growth_multiplier) ==
    PyInt(base * MultDen * MultDen + rate * level * growth_multiplier,
          MultDen * MultDen)

(* int(base + rate * (level - 1) * growth_multiplier) *)
GrowStat(base, rate, level, growth_multiplier) ==
    PyInt(base * MultDen * MultDen + rate * (level - 1) * growth_multiplier,
          MultDen * MultDen)

(* StatGrowth.calculate_stats_at_level *)
CalculateStatsAtLevel(g, base_stats, level) ==
    LET growth_multiplier == GetGrowthMultiplier(g) IN
    Stats(GrowStat(base_stats.max_hp, g.hp_growth, level, growth_multiplier),
          GrowStat(base_stats.max_hp, g.hp_growth, level, growth_multiplier),
          GrowStat(base_stats.attack, g.attack_growth, level, growth_multiplier),
          GrowStat(base_stats.defense, g.defense_growth, level, growth_multiplier),
          GrowStat(base_stats.speed, g.speed_growth, level, growth_multiplier),
          GrowStat(base_stats.special_attack, g.special_attack_growth, level,
                   growth_multiplier),
          GrowStat(base_stats.special_defense, g.special_defense_growth, level,
                   growth_multiplier))

(********************** the StatGrowth operations ***************************)
(* The base vectors InitGrowth constructs: the dataclass defaults, a damaged
   vector (hp < max_hp) and the all-zero vector. *)
BaseStatsPool ==
    { Stats(100, 100, 10, 10, 10, 10, 10),
      Stats(3, 7, 1, 0, 3, 7, 2),
      Stats(0, 0, 0, 0, 0, 0, 0) }

(* Attack rates, in tenths: negative, zero, fractional and whole. *)
AttackRates == {-15, -5, 0, 1, 5, 10, 15, 20, 25}

(* The curve tags of _get_growth_multiplier and a tag it does not know. *)
CurveTags == {"slow", "medium_slow", "medium_fast", "fast", "erratic"}

(* The rates other than attack: the constructor defaults, and a profile with
   zero, fractional and negative rates. *)
RateProfiles == { <<100, 20, 15, 20, 20>>, <<5, 0, 25, 1, -5>> }

NoResults == [first |-> NoStats, second |-> NoStats]

(* Two StatGrowth objects with the same rates (as slow_growth and
   fast_growth of test_growth_curves), each with its own curve tag, and one
   base vector. *)
InitGrowth ==
    /\ \E base_stats \in BaseStatsPool :
          heap = [self |-> base_stats, modified |-> NoStats]
    /\ \E a \in AttackRates, r \in RateProfiles, c1 \in CurveTags, c2 \in CurveTags :
          growth = [first |-> StatGrowth(r[1], a, r[2], r[3], r[4], r[5], c1),
                    second |-> StatGrowth(r[1], a, r[2], r[3], r[4], r[5], c2)]
    /\ ret = NoResults
    /\ call = NoCall
    /\ prev = NoStats
    /\ modifier = NoStats
    /\ ticks = 0
    /\ chain = NoStats
    /\ lineage = {}
    /\ genetics = NoGenetics
    /\ creature_types = EmptyDict
    /\ evolution_paths = <<>>
    /\ creature = NoCreature

(* growth[g].calculate_stats_at_level(base_stats, level): ret keeps, for each
   StatGrowth object, the level and the result of its last call. *)
DoCalculateStatsAtLevel(g, level) ==
    /\ ret' = [ret EXCEPT ![g] =
                 [level |-> level,
                  stats |-> CalculateStatsAtLevel(growth[g], heap["self"], level)]]
    /\ call' = [op |-> "calculate_stats_at_level", target |-> g, level |-> level]
    /\ prev' = heap["self"]
    /\ UNCHANGED <<heap, growth, genetics, modifier, ticks, chain, lineage>>
    /\ UNCHANGED evoVars

NextGrowth ==
    \E g \in {"first", "second"}, level \in 1 .. MaxLevel :
        DoCalculateStatsAtLevel(g, level)

SpecGrowth == InitGrowth /\ [][NextGrowth]_vars

(********************* CreatureType, Trait, Creature ************************)
(* The fields of a CreatureType that the evolution system reads. *)
CreatureType(name, base_stats, stat_growth) ==
    [name |-> name, base_stats |-> base_stats, stat_growth |-> stat_growth]

(* The species of create_example_evolution_system, and the "Warrior" of
   test_evolve_creature (a second definition under the same name). *)
NewbornType ==
    CreatureType("Newborn", Stats(80, 80, 8, 8, 10, 10, 10),
                 StatGrowth(120, 20, 20, 15, 20, 20, "medium_fast"))
WarriorType ==
    CreatureType("Warrior", Stats(100, 100, 15, 12, 8, 10, 10),
                 StatGrowth(150, 35, 25, 10, 20, 20, "medium_fast"))
SpeedsterType ==
    CreatureType("Speedster", Stats(90, 90, 12, 8, 18, 10, 10),
                 StatGrowth(120, 25, 15, 30, 20, 20, "medium_fast"))
TestWarriorType ==
    CreatureType("Warrior", Stats(120, 120, 18, 10, 10, 10, 10),
                 StatGrowth(100, 20, 20, 15, 20, 20, "medium_fast"))

CreatureTypePool == {NewbornType, WarriorType, SpeedsterType, TestWarriorType}

(* A trait: its name and its three modifiers, as numerators over den (tenths
   for a trait as constructed; a mutation multiplies den by MultDen). *)
Trait(name, strength_modifier, speed_modifier, defense_modifier) ==
    [name |-> name, description |-> "", trait_type |-> "passive",
     strength_modifier |-> strength_modifier,
     speed_modifier |-> speed_modifier, defense_modifier |-> defense_modifier,
     rarity |-> "common", den |-> MultDen]

SwiftTrait ==
    [Trait("Swift", 10, 12, 10) EXCEPT !.description = "Moves fast",
                                       !.trait_type = "physical", !.rarity = "rare"]
StrongTrait == Trait("Strong", 12, 10, 11)

(* Creature.has_trait: some trait of the creature has exactly this name. *)
HasTrait(c, trait_name) ==
    \E i \in DOMAIN c.traits : c.traits[i].name = trait_name

(* One trait's multipliers applied to a vector. *)
ApplyTrait(s, t) ==
    [s EXCEPT !.attack = PyInt(s.attack * t.strength_modifier, t.den),
              !.speed = PyInt(s.speed * t.speed_modifier, t.den),
              !.defense = PyInt(s.defense * t.defense_modifier, t.den)]

RECURSIVE ApplyTraits(_, _)
ApplyTraits(s, traits) ==
    IF traits = <<>> THEN s
    ELSE ApplyTraits(ApplyTrait(s, Head(traits)), Tail(traits))

RECURSIVE ApplyModifiers(_, _)
ApplyModifiers(s, modifiers) ==
    IF modifiers = <<>> THEN s
    ELSE LET r == ApplyModifier([self |-> s, modified |-> NoStats], "self",
                                Head(modifiers))
         IN  ApplyModifiers(r.heap[r.id], Tail(modifiers))

(* Creature.get_effective_stats: recomputed from the base stats, then the
   traits, then the active modifiers. *)
GetEffectiveStats(c) ==
    ApplyModifiers(ApplyTraits(c.base_stats, c.traits), c.active_modifiers)

(* What a creature is constructed with besides its species: level, traits,
   active modifiers, energy, and the damage it has taken since. *)
CreatureBuilds ==
    { [level |-> 5, traits |-> <<>>, active_modifiers |-> <<>>,
       energy |-> 100, damage |-> 0],
      [level |-> 10, traits |-> <<>>, active_modifiers |-> <<>>,
       energy |-> 100, damage |-> 0],
      [level |-> 10, traits |-> <<SwiftTrait>>,
       active_modifiers |-> <<CHOOSE m \in ModifierPool(-1) : m.name = "Mixed">>,
       energy |-> 50, damage |-> 50],
      [level |-> 12, traits |-> <<StrongTrait, SwiftTrait>>, active_modifiers |-> <<>>,
       energy |-> 0, damage |-> 200] }

(* A creature of species creature_type built as b, then damaged by b.damage. *)
NewCreature(creature_type, b) ==
    LET c0 == [creature_type |-> creature_type,
               level |-> b.level,
               base_stats |-> CalculateStatsAtLevel(creature_type.stat_growth,
                                                    creature_type.base_stats, b.level),
               stats |-> NoStats,
               energy |-> b.energy,
               max_energy |-> 100,
               traits |-> b.traits,
               active_modifiers |-> b.active_modifiers]
        c1 == [c0 EXCEPT !.stats = GetEffectiveStats(c0)]
    IN  [c1 EXCEPT !.stats =
            TakeDamage([self |-> c1.stats, modified |-> NoStats], "self",
                       b.damage).heap["self"]]

(* Creature(name, creature_type, level, base_stats, traits): the constructor
   call of GeneticsSystem.breed. *)
Creature(name, creature_type, level, base_stats, traits) ==
    LET c0 == [name |-> name,
               creature_type |-> creature_type,
               level |-> level,
               base_stats |-> base_stats,
               stats |-> NoStats,
               energy |-> 100,
               max_energy |-> 100,
               traits |-> traits,
               active_modifiers |-> <<>>]
    IN  [c0 EXCEPT !.stats = GetEffectiveStats(c0)]

(**************************** GeneticsSystem ********************************)
(* GeneticsSystem(mutation_rate), the rate in tenths. *)
GeneticsSystem(mutation_rate) == [mutation_rate |-> mutation_rate]

(* random.random() outcomes, in tenths: 0.0 and 0.5 stand for [0, 0.5) and
   [0.5, 1); random.uniform(0.9, 1.1) outcomes, in tenths. *)
RandomDraws == {0, 5}
MutationFactors == {9, 10, 11}
NoDraw == -1

(* average_stat with its random.randint outcome `variation`:
   avg = (stat1 + stat2) // 2; the outcome lies in -avg // 10 .. avg // 10,
   where -avg // 10 is (-avg) // 10; returns max(1, avg + variation). *)
Avg(stat1, stat2) == (stat1 + stat2) \div 2
Variations(avg) == ((-avg) \div 10) .. (avg \div 10)
AverageStat(stat1, stat2, variation) == Max(1, Avg(stat1, stat2) + variation)

StatFields == <<"max_hp", "hp", "attack", "defense", "speed", "special_attack",
                "special_defense">>
(* The parents' field a field of the offspring is averaged from, in the
   order of the constructor call of _inherit_stats. *)
ParentField(i) == IF StatFields[i] = "hp" THEN "max_hp" ELSE StatFields[i]

(* The random.randint outcomes _inherit_stats can draw for parents' stats
   p1_stats, p2_stats: one per average_stat call. *)
StatDraws(p1_stats, p2_stats) ==
    LET V(i) == Variations(Avg(p1_stats[ParentField(i)], p2_stats[ParentField(i)]))
    IN  { <<v1, v2, v3, v4, v5, v6, v7>> :
            v1 \in V(1), v2 \in V(2), v3 \in V(3), v4 \in V(4), v5 \in V(5),
            v6 \in V(6), v7 \in V(7) }

(* GeneticsSystem._inherit_stats with the randint outcomes v. *)
InheritStats(p1_stats, p2_stats, v) ==
    LET a(i) == AverageStat(p1_stats[ParentField(i)], p2_stats[ParentField(i)], v[i])
    IN  Stats(a(2), a(1), a(3), a(4), a(5), a(6), a(7))

(* GeneticsSystem._mutate_trait with the random.uniform outcome
   mutation_factor (in tenths). *)
MutateTraitStrengthOnly(trait, mutation_factor) ==
    [name |-> trait.name \o " (Mutated)",
     description |-> trait.description \o " - Mutated variant",
     trait_type |-> trait.trait_type,
     strength_modifier |-> trait.strength_modifier * mutation_factor,
     speed_modifier |-> trait.speed_modifier * MultDen,
     defense_modifier |-> trait.defense_modifier * MultDen,
     rarity |-> trait.rarity,
     den |-> trait.den * MultDen]
MutateTrait(trait, mutation_factor) ==
    [name |-> trait.name \o " (Mutated)",
     description |-> trait.description \o " - Mutated variant",
     trait_type |-> trait.trait_type,
     strength_modifier |-> trait.strength_modifier * mutation_factor,
     speed_modifier |-> trait.speed_modifier * mutation_factor,
     defense_modifier |-> trait.defense_modifier * mutation_factor,
     rarity |-> trait.rarity,
     den |-> trait.den * MultDen]

(* The random outcomes of one iteration of the loop of _inherit_traits: the
   draw compared with 0.5, then (if inherited) the draw compared with
   mutation_rate, then (if mutated) the mutation factor. *)
TraitDraws(mutation_rate) ==
    { d \in [inherit : RandomDraws, mutate : RandomDraws \cup {NoDraw},
             factor : MutationFactors \cup {NoDraw}] :
        /\ (d.mutate # NoDraw) <=> (d.inherit < 5)
        /\ (d.factor # NoDraw) <=> (d.mutate # NoDraw /\ d.mutate < mutation_rate) }

(* The first loop of _inherit_traits: the list `inherited`. *)
RECURSIVE InheritedInclusive(_, _, _)
InheritedInclusive(mutation_rate, all_parent_traits, draws) ==
    IF all_parent_traits = <<>> THEN <<>>
    ELSE LET trait == Head(all_parent_traits)
             d == Head(draws)
             rest == InheritedInclusive(mutation_rate, Tail(all_parent_traits), Tail(draws))
         IN  IF d.inherit < 5
             THEN IF d.mutate <= mutation_rate
                  THEN <<MutateTrait(trait, IF d.factor = NoDraw THEN 10 ELSE d.factor)>> \o rest
                  ELSE <<trait>> \o rest
             ELSE rest
RECURSIVE Inherited(_, _, _)
Inherited(mutation_rate, all_parent_traits, draws) ==
    IF all_parent_traits = <<>> THEN <<>>
    ELSE LET trait == Head(all_parent_traits)
             d == Head(draws)
             rest == Inherited(mutation_rate, Tail(all_parent_traits), Tail(draws))
         IN  IF d.inherit < 5
             THEN IF d.mutate < mutation_rate
                  THEN <<MutateTrait(trait, d.factor)>> \o rest
                  ELSE <<trait>> \o rest
             ELSE rest

(* The second loop of _inherit_traits: unique_traits, given the names seen. *)
RECURSIVE UniqueTraits(_, _)
UniqueTraits(inherited, seen) ==
    IF inherited = <<>> THEN <<>>
    ELSE IF Head(inherited).name \in seen
         THEN UniqueTraits(Tail(inherited), seen)
         ELSE <<Head(inherited)>>
                \o UniqueTraits(Tail(inherited), seen \cup {Head(inherited).name})

(* GeneticsSystem._inherit_traits with the random outcomes draws (one per
   parent trait). *)
InheritTraits(mutation_rate, parent1, parent2, draws) ==
    UniqueTraits(Inherited(mutation_rate, parent1.traits \o parent2.traits, draws), {})

(* GeneticsSystem.breed with the random outcomes: the index random.choice
   picks, the randint outcomes of _inherit_stats, the draws of _inherit_traits. *)
BreedParentLevel(g, parent1, parent2, offspring_name, choice, v, draws) ==
    Creature(offspring_name,
             <<parent1.creature_type, parent2.creature_type>>[choice],
             <<parent1.level, parent2.level>>[choice],
             InheritStats(parent1.base_stats, parent2.base_stats, v),
             InheritTraits(g.mutation_rate, parent1, parent2, draws))
Breed(g, parent1, parent2, offspring_name, choice, v, draws) ==
    Creature(offspring_name,
             <<parent1.creature_type, parent2.creature_type>>[choice],
             1,
             InheritStats(parent1.base_stats, parent2.base_stats, v),
             InheritTraits(g.mutation_rate, parent1, parent2, draws))

(************************ the GeneticsSystem operations **********************)
(* The parents InitBreed constructs: different species and levels, small
   base stats (one vector damaged), with no trait, with traits carried by
   both parents, and with a trait an earlier breeding mutated. *)
ParentPool ==
    { Creature("P1", NewbornType, 5, Stats(3, 12, 0, 0, 0, 0, 0), <<SwiftTrait>>),
      Creature("P2", WarriorType, 10, Stats(18, 18, 0, 0, 0, 0, 0),
               <<SwiftTrait, StrongTrait>>),
      Creature("P3", SpeedsterType, 1, Stats(7, 7, 9, 0, 0, 0, 0),
               <<MutateTrait(SwiftTrait, 11)>>),
      Creature("P4", NewbornType, 2, Stats(20, 20, 0, 0, 0, 0, 0), <<>>) }

(* mutation_rate values, in tenths: 0.0, the default 0.1, and 1.0. *)
MutationRates == {0, 1, 10}

InitBreed ==
    /\ \E mutation_rate \in MutationRates : genetics = GeneticsSystem(mutation_rate)
    /\ \E parent1 \in ParentPool, parent2 \in ParentPool :
          call = [op |-> "GeneticsSystem", parent1 |-> parent1, parent2 |-> parent2,
                  offspring_name |-> "Child"]
    /\ ret = NoCreature
    /\ prev = <<>>
    /\ creature = NoCreature
    /\ creature_types = EmptyDict
    /\ evolution_paths = <<>>
    /\ heap = NoHeap
    /\ modifier = NoStats
    /\ growth = NoGrowth
    /\ ticks = 0
    /\ chain = NoStats
    /\ lineage = {}

(* genetics.breed(parent1, parent2, offspring_name), once, on the parents
   chosen at construction, with every outcome of the random draws. *)
DoBreed ==
    /\ call.op = "GeneticsSystem"
    /\ \E choice \in {1, 2},
          v \in StatDraws(call.parent1.base_stats, call.parent2.base_stats),
          draws \in [1 .. Len(call.parent1.traits \o call.parent2.traits)
                       -> TraitDraws(genetics.mutation_rate)] :
          /\ ret' = Breed(genetics, call.parent1, call.parent2, call.offspring_name,
                          choice, v, draws)
          /\ prev' = Inherited(genetics.mutation_rate,
                               call.parent1.traits \o call.parent2.traits, draws)
    /\ call' = [call EXCEPT !.op = "breed"]
    /\ UNCHANGED <<genetics, growth, creature, lineage>>
    /\ UNCHANGED <<creature_types, evolution_paths>>
    /\ UNCHANGED statVars

NextBreed == DoBreed

SpecBreed == InitBreed /\ [][NextBreed]_vars

(**************************** EvolutionPath *********************************)
(* EvolutionPath(...): required_traits a list of names, conditions a dict. *)
EvolutionPath(from_type, to_type, min_level, required_traits, conditions) ==
    [from_type |-> from_type, to_type |-> to_type, min_level |-> min_level,
     required_traits |-> required_traits, conditions |-> conditions]

(* EvolutionPath.can_evolve *)
CanEvolveStrictLevel(path, c) ==
    /\ c.creature_type.name = path.from_type
    /\ c.level > path.min_level
    /\ \A i \in DOMAIN path.required_traits : HasTrait(c, path.required_traits[i])
CanEvolve(path, c) ==
    IF c.creature_type.name # path.from_type THEN FALSE
    ELSE IF c.level < path.min_level THEN FALSE
    ELSE IF \E i \in DOMAIN path.required_traits :
                ~HasTrait(c, path.required_traits[i]) THEN FALSE
    ELSE TRUE

ConditionsPool ==
    { EmptyDict, [evolution_type |-> "strength"], [evolution_type |-> "speed"] }

(* The paths the model registers and passes to evolve: the two of
   create_example_evolution_system, one that requires a trait, one that
   leads back, and one from a species to itself. *)
PathPool ==
    { EvolutionPath("Newborn", "Warrior", 10, <<>>, [evolution_type |-> "strength"]),
      EvolutionPath("Newborn", "Speedster", 10, <<>>, [evolution_type |-> "speed"]),
      EvolutionPath("Newborn", "Speedster", 5, <<"Swift">>, EmptyDict),
      EvolutionPath("Warrior", "Newborn", 5, <<>>, EmptyDict),
      EvolutionPath("Warrior", "Warrior", 12, <<>>, EmptyDict) }

(* The paths can_evolve is evaluated on in SpecPath. *)
PathUniverse ==
    { EvolutionPath(f, t, l, r, k) :
        f \in {"Newborn", "Warrior"}, t \in {"Warrior", "Speedster"},
        l \in {5, 10, 11},
        r \in { <<>>, <<"Swift">>, <<"Strong", "Swift">>, <<"Swift (Mutated)">>,
                <<"swift">> },
        k \in ConditionsPool }

(*************************** EvolutionSystem ********************************)
(* EvolutionSystem.get_available_evolutions *)
GetAvailableFirstOnly(paths, c) ==
    LET all == SelectSeq(paths, LAMBDA path : CanEvolve(path, c))
    IN  IF all = <<>> THEN <<>> ELSE <<all[1]>>
GetAvailableEvolutions(paths, c) ==
    SelectSeq(paths, LAMBDA path : CanEvolve(path, c))

(* EvolutionSystem.can_evolve *)
SystemCanEvolve(paths, c) == Len(GetAvailableEvolutions(paths, c)) > 0

(* evolution_path = available[0] *)
SelectPathLast(available) == available[Len(available)]
SelectPath(available) == available[1]

Failure(message) == [success |-> FALSE, message |-> message]

(* The checks of evolve on the chosen path, in order: the message of the
   first one that fails, "" when none does. *)
PathFailureTargetFirst(types, path, c) ==
    IF path.to_type \notin DOMAIN types
    THEN "Target type '" \o path.to_type \o "' not found"
    ELSE IF ~CanEvolve(path, c) THEN "Evolution conditions not met"
    ELSE ""
PathFailureOneMessage(types, path, c) ==
    IF ~CanEvolve(path, c) \/ path.to_type \notin DOMAIN types
    THEN "Evolution conditions not met"
    ELSE ""
PathFailure(types, path, c) ==
    IF ~CanEvolve(path, c) THEN "Evolution conditions not met"
    ELSE IF path.to_type \notin DOMAIN types
    THEN "Target type '" \o path.to_type \o "' not found"
    ELSE ""

(* creature.base_stats = target_type.stat_growth.calculate_stats_at_level(
       target_type.base_stats, creature.level) *)
EvolvedBaseStatsLevelOne(target_type, c) ==
    CalculateStatsAtLevel(target_type.stat_growth, target_type.base_stats, 1)
EvolvedBaseStats(target_type, c) ==
    CalculateStatsAtLevel(target_type.stat_growth, target_type.base_stats, c.level)

(* creature.creature_type = target_type, then the recalculation of
   creature.base_stats. *)
SetCreatureTypeStatsOnly(c, target_type) ==
    [c EXCEPT !.base_stats = EvolvedBaseStats(target_type, c)]
SetCreatureType(c, target_type) ==
    [c EXCEPT !.creature_type = target_type,
              !.base_stats = EvolvedBaseStats(target_type, c)]

(* creature.stats = creature.get_effective_stats() *)
RefreshStats(c) == [c EXCEPT !.stats = GetEffectiveStats(c)]

(* creature.stats.hp = creature.stats.max_hp; creature.energy = creature.max_energy *)
FullyHeal(c) == [c EXCEPT !.stats.hp = c.stats.max_hp, !.energy = c.max_energy]

(* The transformation evolve performs once every check has passed. *)
PerformEvolution(types, path, c) ==
    [creature |-> FullyHeal(RefreshStats(SetCreatureType(c, types[path.to_type]))),
     ret |-> [success |-> TRUE,
              message |-> "Evolved from " \o c.creature_type.name \o " to "
                          \o types[path.to_type].name \o "!"]]

(* EvolutionSystem.evolve(creature, evolution_path): the creature afterwards
   and the (success, message) pair returned.  NoPath is None. *)
EvolveRefreshFirst(types, paths, c, evolution_path) ==
    LET available == GetAvailableEvolutions(paths, c) IN
    IF evolution_path = NoPath /\ available = <<>>
    THEN [creature |-> RefreshStats(c), ret |-> Failure("No evolution paths available")]
    ELSE LET path == IF evolution_path = NoPath THEN SelectPath(available)
                     ELSE evolution_path
         IN  IF PathFailure(types, path, c) # ""
             THEN [creature |-> RefreshStats(c),
                   ret |-> Failure(PathFailure(types, path, c))]
             ELSE PerformEvolution(types, path, c)
EvolveWithFallback(types, paths, c, evolution_path) ==
    LET available == GetAvailableEvolutions(paths, c)
        registered == SelectSeq(available, LAMBDA path : path.to_type \in DOMAIN types)
    IN
    IF evolution_path = NoPath /\ available = <<>>
    THEN [creature |-> c, ret |-> Failure("No evolution paths available")]
    ELSE LET path == IF evolution_path # NoPath THEN evolution_path
                     ELSE IF registered # <<>> THEN SelectPath(registered)
                     ELSE SelectPath(available)
         IN  IF PathFailure(types, path, c) # ""
             THEN [creature |-> c, ret |-> Failure(PathFailure(types, path, c))]
             ELSE PerformEvolution(types, path, c)
Evolve(types, paths, c, evolution_path) ==
    LET available == GetAvailableEvolutions(paths, c) IN
    IF evolution_path = NoPath /\ available = <<>>
    THEN [creature |-> c, ret |-> Failure("No evolution paths available")]
    ELSE LET path == IF evolution_path = NoPath THEN SelectPath(available)
                     ELSE evolution_path
         IN  IF PathFailure(types, path, c) # ""
             THEN [creature |-> c, ret |-> Failure(PathFailure(types, path, c))]
             ELSE PerformEvolution(types, path, c)

(******************** the EvolutionSystem operations ************************)
Init ==
    /\ creature_types = EmptyDict
    /\ evolution_paths = <<>>
    /\ \E b \in CreatureBuilds : creature = NewCreature(NewbornType, b)
    /\ call = NoCall
    /\ ret = 0
    /\ prev = NoCreature
    /\ heap = NoHeap
    /\ modifier = NoStats
    /\ ticks = 0
    /\ chain = NoStats
    /\ lineage = {creature.creature_type.name}
    /\ growth = NoGrowth
    /\ genetics = NoGenetics

RegisterCreatureType(creature_type) ==
    /\ creature_types' = DictSet(creature_types, creature_type.name, creature_type)
    /\ call' = [op |-> "register_creature_type", creature_type |-> creature_type]
    /\ ret' = 0
    /\ prev' = creature
    /\ UNCHANGED <<evolution_paths, creature>>
    /\ UNCHANGED statVars
    /\ UNCHANGED <<growth, genetics, lineage>>

AddEvolutionPath(evolution_path) ==
    /\ Len(evolution_paths) < MaxPaths
    /\ evolution_paths' = Append(evolution_paths, evolution_path)
    /\ call' = [op |-> "add_evolution_path", path |-> evolution_path]
    /\ ret' = 0
    /\ prev' = creature
    /\ UNCHANGED <<creature_types, creature>>
    /\ UNCHANGED statVars
    /\ UNCHANGED <<growth, genetics, lineage>>

DoGetAvailableEvolutions ==
    /\ ret' = GetAvailableEvolutions(evolution_paths, creature)
    /\ call' = [op |-> "get_available_evolutions"]
    /\ prev' = creature
    /\ UNCHANGED evoVars
    /\ UNCHANGED statVars
    /\ UNCHANGED <<growth, genetics, lineage>>

DoCanEvolve ==
    /\ ret' = SystemCanEvolve(evolution_paths, creature)
    /\ call' = [op |-> "can_evolve"]
    /\ prev' = creature
    /\ UNCHANGED evoVars
    /\ UNCHANGED statVars
    /\ UNCHANGED <<growth, genetics, lineage>>

DoEvolve(evolution_path) ==
    /\ creature' = Evolve(creature_types, evolution_paths, creature, evolution_path).creature
    /\ ret' = Evolve(creature_types, evolution_paths, creature, evolution_path).ret
    /\ call' = [op |-> "evolve", path |-> evolution_path]
    /\ prev' = creature
    /\ lineage' = lineage \cup {creature'.creature_type.name}
    /\ UNCHANGED <<creature_types, evolution_paths>>
    /\ UNCHANGED statVars
    /\ UNCHANGED <<growth, genetics>>

Next ==
    \/ \E creature_type \in CreatureTypePool : RegisterCreatureType(creature_type)
    \/ \E evolution_path \in PathPool : AddEvolutionPath(evolution_path)
    \/ DoGetAvailableEvolutions
    \/ DoCanEvolve
    \/ \E evolution_path \in PathPool \cup {NoPath} : DoEvolve(evolution_path)

Spec == Init /\ [][Next]_vars

(******************* EvolutionPath.can_evolve on inputs *********************)
InitPath ==
    /\ \E creature_type \in {NewbornType, WarriorType}, b \in CreatureBuilds :
          creature = NewCreature(creature_type, b)
    /\ \E path \in PathUniverse : call = [op |-> "EvolutionPath", path |-> path]
    /\ ret = 0
    /\ prev = NoCreature
    /\ creature_types = EmptyDict
    /\ evolution_paths = <<>>
    /\ heap = NoHeap
    /\ modifier = NoStats
    /\ ticks = 0
    /\ chain = NoStats
    /\ lineage = {}
    /\ growth = NoGrowth
    /\ genetics = NoGenetics

DoPathCanEvolve ==
    /\ call.op = "EvolutionPath"
    /\ ret' = CanEvolve(call.path, creature)
    /\ call' = [op |-> "path.can_evolve", path |-> call.path]
    /\ prev' = creature
    /\ UNCHANGED evoVars
    /\ UNCHANGED statVars
    /\ UNCHANGED <<growth, genetics, lineage>>

NextPath == DoPathCanEvolve

SpecPath == InitPath /\ [][NextPath]_vars

(*********************** to_dict / from_dict ********************************)
(* Stats.to_dict: the dict of the seven fields. *)
StatsToDict(s) ==
    [hp |-> s.hp, max_hp |-> s.max_hp, attack |-> s.attack, defense |-> s.defense,
     speed |-> s.speed, special_attack |-> s.special_attack,
     special_defense |-> s.special_defense]

(* Stats.from_dict: the constructor, with its clamp, called with the
   entries of data as keyword arguments. *)
StatsFromDict(data) ==
    Stats(data["hp"], data["max_hp"], data["attack"], data["defense"],
          data["speed"], data["special_attack"], data["special_defense"])

(* StatModifier.to_dict *)
StatModifierToDict(m) ==
    [name |-> m.name, duration |-> m.duration,
     attack_multiplier |-> m.attack_multiplier, attack_bonus |-> m.attack_bonus,
     defense_multiplier |-> m.defense_multiplier, defense_bonus |-> m.defense_bonus,
     speed_multiplier |-> m.speed_multiplier, speed_bonus |-> m.speed_bonus,
     special_attack_multiplier |-> m.special_attack_multiplier,
     special_attack_bonus |-> m.special_attack_bonus,
     special_defense_multiplier |-> m.special_defense_multiplier,
     special_defense_bonus |-> m.special_defense_bonus,
     max_hp_multiplier |-> m.max_hp_multiplier, max_hp_bonus |-> m.max_hp_bonus]

(* StatModifier.from_dict: the constructor called with the entries of data. *)
StatModifierFromDictPermanent(data) ==
    StatModifier(data["name"], -1,
                 data["attack_multiplier"], data["attack_bonus"],
                 data["defense_multiplier"], data["defense_bonus"],
                 data["speed_multiplier"], data["speed_bonus"],
                 data["special_attack_multiplier"], data["special_attack_bonus"],
                 data["special_defense_multiplier"], data["special_defense_bonus"],
                 data["max_hp_multiplier"], data["max_hp_bonus"])
StatModifierFromDict(data) ==
    StatModifier(data["name"], data["duration"],
                 data["attack_multiplier"], data["attack_bonus"],
                 data["defense_multiplier"], data["defense_bonus"],
                 data["speed_multiplier"], data["speed_bonus"],
                 data["special_attack_multiplier"], data["special_attack_bonus"],
                 data["special_defense_multiplier"], data["special_defense_bonus"],
                 data["max_hp_multiplier"], data["max_hp_bonus"])

(* StatGrowth.to_dict *)
StatGrowthToDict(g) ==
    [hp_growth |-> g.hp_growth, attack_growth |-> g.attack_growth,
     defense_growth |-> g.defense_growth, speed_growth |-> g.speed_growth,
     special_attack_growth |-> g.special_attack_growth,
     special_defense_growth |-> g.special_defense_growth,
     growth_curve |-> g.growth_curve]

(* StatGrowth.from_dict: the constructor called with the entries of data. *)
StatGrowthFromDict(data) ==
    StatGrowth(data["hp_growth"], data["attack_growth"], data["defense_growth"],
               data["speed_growth"], data["special_attack_growth"],
               data["special_defense_growth"], data["growth_curve"])

(* EvolutionPath.to_dict *)
EvolutionPathToDict(path) ==
    [from_type |-> path.from_type, to_type |-> path.to_type,
     min_level |-> path.min_level, required_traits |-> path.required_traits,
     conditions |-> path.conditions]

(* EvolutionPath.from_dict: the constructor called with the entries of data. *)
EvolutionPathFromDict(data) ==
    EvolutionPath(data["from_type"], data["to_type"], data["min_level"],
                  data["required_traits"], data["conditions"])

(* obj.to_dict() and T.from_dict(data) for the value type named type. *)
ToDict(type, obj) ==
    CASE type = "Stats" -> StatsToDict(obj)
      [] type = "StatModifier" -> StatModifierToDict(obj)
      [] type = "StatGrowth" -> StatGrowthToDict(obj)
      [] type = "EvolutionPath" -> EvolutionPathToDict(obj)
FromDict(type, data) ==
    CASE type = "Stats" -> StatsFromDict(data)
      [] type = "StatModifier" -> StatModifierFromDict(data)
      [] type = "StatGrowth" -> StatGrowthFromDict(data)
      [] type = "EvolutionPath" -> EvolutionPathFromDict(data)

(* The Stats objects serialized: constructed ones, and the results of
   apply_modifier on them (among which hp exceeds a negative max_hp). *)
ConstructedStats ==
    { Stats(hp, max_hp, p[1], p[2], p[3], p[4], p[5]) :
        hp \in 0 .. MaxHP, max_hp \in 0 .. MaxHP, p \in StatProfiles }
StatsObjects ==
    ConstructedStats
      \cup { ApplyModifier([self |-> s, modified |-> NoStats], "self", m).heap["modified"] :
               s \in ConstructedStats, m \in ModifierPool(-1) }

(* The objects of each value type. *)
Objects(type) ==
    CASE type = "Stats" -> StatsObjects
      [] type = "StatModifier" -> UNION { ModifierPool(d) : d \in Durations }
      [] type = "StatGrowth" ->
            { StatGrowth(r[1], a, r[2], r[3], r[4], r[5], c) :
                r \in RateProfiles, a \in AttackRates, c \in CurveTags }
      [] type = "EvolutionPath" -> PathUniverse \cup PathPool

ValueTypes == {"Stats", "StatModifier", "StatGrowth", "EvolutionPath"}

InitSerial ==
    /\ \E type \in ValueTypes :
          /\ call = [op |-> "construct", type |-> type]
          /\ prev \in Objects(type)
    /\ ret = 0
    /\ heap = NoHeap
    /\ modifier = NoStats
    /\ ticks = 0
    /\ chain = NoStats
    /\ lineage = {}
    /\ growth = NoGrowth
    /\ genetics = NoGenetics
    /\ creature_types = EmptyDict
    /\ evolution_paths = <<>>
    /\ creature = NoCreature

(* data = obj.to_dict() *)
DoToDict ==
    /\ call.op = "construct"
    /\ ret' = ToDict(call.type, prev)
    /\ call' = [call EXCEPT !.op = "to_dict"]
    /\ UNCHANGED prev
    /\ UNCHANGED evoVars
    /\ UNCHANGED statVars
    /\ UNCHANGED <<growth, genetics, lineage>>

(* T.from_dict(data) on the dict to_dict returned. *)
DoFromDict ==
    /\ call.op = "to_dict"
    /\ ret' = FromDict(call.type, ret)
    /\ call' = [call EXCEPT !.op = "from_dict"]
    /\ UNCHANGED prev
    /\ UNCHANGED evoVars
    /\ UNCHANGED statVars
    /\ UNCHANGED <<growth, genetics, lineage>>

NextSerial ==
    \/ DoToDict
    \/ DoFromDict

SpecSerial == InitSerial /\ [][NextSerial]_vars

(***************************************************************************)
(*                   Properties of EvolutionSystem                         *)
(***************************************************************************)

(* The indices of the registered paths creature c qualifies for. *)
QualifyingIndices(c) ==
    {i \in DOMAIN evolution_paths : CanEvolve(evolution_paths[i], c)}

(* The first registered path, in registration order, that c qualifies for. *)
FirstQualifying(c) ==
    evolution_paths[CHOOSE i \in QualifyingIndices(c) :
                        \A j \in QualifyingIndices(c) : i <= j]

(* The path an evolve call on creature c was decided on. *)
PathUsed(c) == IF call.path = NoPath THEN FirstQualifying(c) ELSE call.path

(* C1: after a successful evolve the creature's species is the definition
   registered under the path's to_type, its base stats are that species'
   growth profile evaluated on that species' base stats at the creature's
   level, its level is unchanged, its hp equals its max_hp and its energy
   equals its max_energy. *)
C1_EvolveSuccess ==
    (call.op = "evolve" /\ ret.success) =>
        /\ PathUsed(prev).to_type \in DOMAIN creature_types
        /\ creature.creature_type = creature_types[PathUsed(prev).to_type]
        /\ creature.base_stats =
              CalculateStatsAtLevel(creature.creature_type.stat_growth,
                                    creature.creature_type.base_stats, prev.level)
        /\ creature.level = prev.level
        /\ creature.stats.hp = creature.stats.max_hp
        /\ creature.energy = creature.max_energy

(* A damaged, drained creature above level 1 has evolved. *)
C1_Witness ==
    /\ call.op = "evolve" /\ ret.success
    /\ prev.level > 1
    /\ prev.stats.hp < prev.stats.max_hp
    /\ prev.energy < prev.max_energy
    /\ creature.creature_type.name # prev.creature_type.name
    /\ creature.base_stats # creature.creature_type.base_stats

(* C2: evolve returns (False, message) in exactly three cases, in this
   precedence: path omitted and no registered path qualifies; a supplied path
   the creature does not qualify for (whether or not its target is
   registered); a qualifying path whose to_type is not registered.  In every
   other case it returns success. *)
C2_EvolveOutcomes ==
    call.op = "evolve" =>
        IF call.path = NoPath /\ QualifyingIndices(prev) = {}
        THEN ret = [success |-> FALSE, message |-> "No evolution paths available"]
        ELSE IF call.path # NoPath /\ ~CanEvolve(call.path, prev)
        THEN ret = [success |-> FALSE, message |-> "Evolution conditions not met"]
        ELSE IF PathUsed(prev).to_type \notin DOMAIN creature_types
        THEN ret = [success |-> FALSE,
                    message |-> "Target type '" \o PathUsed(prev).to_type
                                \o "' not found"]
        ELSE ret.success = TRUE

(* A supplied path failed on its conditions while its target was
   unregistered too. *)
C2_Witness ==
    /\ call.op = "evolve"
    /\ call.path # NoPath
    /\ ~CanEvolve(call.path, prev)
    /\ call.path.to_type \notin DOMAIN creature_types
    /\ ret = [success |-> FALSE, message |-> "Evolution conditions not met"]

(* C3: when evolve is called without a path and succeeds, the creature's new
   species name is the to_type of the first qualifying path in registration
   order. *)
C3_AutoSelectFirst ==
    (call.op = "evolve" /\ call.path = NoPath /\ ret.success) =>
        creature.creature_type.name = FirstQualifying(prev).to_type

(* An automatic evolve succeeded with two qualifying paths of different
   targets registered. *)
C3_Witness ==
    /\ call.op = "evolve" /\ call.path = NoPath /\ ret.success
    /\ \E i, j \in QualifyingIndices(prev) :
          i < j /\ evolution_paths[i].to_type # evolution_paths[j].to_type

(* The k-th smallest element of a set of numbers. *)
KthIndex(S, k) == CHOOSE i \in S : Cardinality({j \in S : j < i}) = k - 1

(* C4: get_available_evolutions returns exactly the registered paths the
   creature qualifies for, once per registration, in registration order; and
   EvolutionSystem.can_evolve is true iff there is such a path. *)
C4_AvailableEvolutions ==
    /\ call.op = "get_available_evolutions" =>
          /\ Len(ret) = Cardinality(QualifyingIndices(creature))
          /\ \A k \in DOMAIN ret :
                ret[k] = evolution_paths[KthIndex(QualifyingIndices(creature), k)]
    /\ call.op = "can_evolve" =>
          ret = (QualifyingIndices(creature) # {})

(* Two different registered paths were returned. *)
C4_Witness ==
    /\ call.op = "get_available_evolutions"
    /\ Len(ret) = 2
    /\ ret[1] # ret[2]

(***************************************************************************)
(*                    Properties of EvolutionPath                          *)
(***************************************************************************)
TraitNames(c) == {c.traits[i].name : i \in DOMAIN c.traits}

(* C5: path.can_evolve(creature) is true iff the creature's species name
   equals from_type, its level is >= min_level and every required trait name
   is among its trait names; the conditions map does not change the result. *)
C5_PathCanEvolve ==
    call.op = "path.can_evolve" =>
        /\ ret = (/\ creature.creature_type.name = call.path.from_type
                  /\ creature.level >= call.path.min_level
                  /\ \A i \in DOMAIN call.path.required_traits :
                        call.path.required_traits[i] \in TraitNames(creature))
        /\ \A k \in ConditionsPool :
              CanEvolve([call.path EXCEPT !.conditions = k], creature) = ret

(* A path with a required trait and a non-empty conditions map accepted a
   creature exactly at its minimum level. *)
C5_Witness ==
    /\ call.op = "path.can_evolve"
    /\ ret = TRUE
    /\ call.path.required_traits # <<>>
    /\ call.path.conditions # EmptyDict
    /\ creature.level = call.path.min_level

(***************************************************************************)
(*                    Properties of StatModifier                           *)
(***************************************************************************)

(* C6: a modifier constructed with duration d > 0 is not expired after k < d
   calls of tick(), is expired after d calls, and stays at duration 0 under
   every further tick(); a modifier with duration -1 keeps duration -1 and is
   never expired.  (In SpecModifier prev is the modifier as constructed.) *)
C6_TickLifecycle ==
    /\ prev.duration > 0 =>
          /\ ticks < prev.duration =>
                ~IsExpired(modifier) /\ modifier.duration = prev.duration - ticks
          /\ ticks >= prev.duration =>
                IsExpired(modifier) /\ modifier.duration = 0
    /\ prev.duration = -1 => modifier.duration = -1 /\ ~IsExpired(modifier)

(* A modifier of duration 2 ticked three times, and a permanent one ticked. *)
C6_Witness ==
    \/ prev.duration = 2 /\ ticks = 3 /\ modifier.duration = 0
    \/ prev.duration = -1 /\ ticks = 3 /\ modifier.duration = -1

(***************************************************************************)
(*                        Properties of Stats                              *)
(***************************************************************************)
OtherFields == {"max_hp", "attack", "defense", "speed", "special_attack", "special_defense"}

InBounds(v) == 0 <= v.hp /\ v.hp <= v.max_hp

(* C7: on a vector with 0 <= hp <= max_hp, take_damage(amount >= 0) returns
   min(amount, hp); the returned value plus the remaining hp is the original
   hp; hp is not negative afterwards; no field other than hp changes. *)
C7_TakeDamage ==
    (call.op = "take_damage" /\ InBounds(prev)) =>
        LET now == heap[call.target] IN
        /\ ret = Min(call.amount, prev.hp)
        /\ ret + now.hp = prev.hp
        /\ now.hp >= 0
        /\ \A f \in OtherFields : now[f] = prev[f]

(* Damage beyond the remaining hp was dealt to a living vector. *)
C7_Witness ==
    /\ call.op = "take_damage"
    /\ InBounds(prev) /\ prev.hp > 0
    /\ call.amount > prev.hp
    /\ heap[call.target].hp = 0
    /\ ret = prev.hp

(* C8: on a vector with 0 <= hp <= max_hp, heal(amount >= 0) returns
   min(amount, max_hp - hp); hp does not exceed max_hp afterwards; heal(0)
   returns 0 and changes nothing; no field other than hp changes. *)
C8_Heal ==
    (call.op = "heal" /\ InBounds(prev)) =>
        LET now == heap[call.target] IN
        /\ ret = Min(call.amount, prev.max_hp - prev.hp)
        /\ now.hp = prev.hp + ret
        /\ now.hp <= now.max_hp
        /\ call.amount = 0 => ret = 0 /\ now = prev
        /\ \A f \in OtherFields : now[f] = prev[f]

(* A heal larger than the missing hp was applied to a damaged vector. *)
C8_Witness ==
    /\ call.op = "heal"
    /\ InBounds(prev) /\ prev.hp < prev.max_hp
    /\ call.amount > prev.max_hp - prev.hp
    /\ heap[call.target].hp = prev.max_hp
    /\ ret = prev.max_hp - prev.hp

(* C9: for a StatVector v (hp >= 0, as the data model has it) and an amount a
   with v.hp + a <= v.max_hp, heal(a) directly followed by take_damage(a)
   leaves v with all seven fields as they were before the heal. *)
C9_HealThenDamage ==
    (/\ call.op = "take_damage"
     /\ chain # NoStats
     /\ chain.hp >= 0
     /\ chain.hp + call.amount <= chain.max_hp) =>
        heap[call.target] = chain

(* heal(a) then take_damage(a) with a > 0 and no clamping has happened. *)
C9_Witness ==
    /\ call.op = "take_damage"
    /\ chain # NoStats
    /\ chain.hp >= 0
    /\ call.amount > 0
    /\ chain.hp + call.amount <= chain.max_hp
    /\ prev.hp = chain.hp + call.amount

(* The rational x / MultDen truncated toward zero, stated without PyInt. *)
IsTruncOf(r, x) ==
    /\ x >= 0 => r >= 0 /\ r * MultDen <= x /\ x < (r + 1) * MultDen
    /\ x < 0 => r <= 0 /\ r * MultDen >= x /\ x > (r - 1) * MultDen

(* The rational x / MultDen rounded down. *)
IsFloorOf(r, x) == r * MultDen <= x /\ x < (r + 1) * MultDen

ScaledFields == {"attack", "defense", "speed", "special_attack", "special_defense", "max_hp"}

(* old * multiplier + bonus for field f, as a number of tenths. *)
Scaled(v, m, f) ==
    CASE f = "attack" -> v.attack * m.attack_multiplier + m.attack_bonus * MultDen
      [] f = "defense" -> v.defense * m.defense_multiplier + m.defense_bonus * MultDen
      [] f = "speed" -> v.speed * m.speed_multiplier + m.speed_bonus * MultDen
      [] f = "special_attack" ->
            v.special_attack * m.special_attack_multiplier + m.special_attack_bonus * MultDen
      [] f = "special_defense" ->
            v.special_defense * m.special_defense_multiplier + m.special_defense_bonus * MultDen
      [] f = "max_hp" -> v.max_hp * m.max_hp_multiplier + m.max_hp_bonus * MultDen

(* C10 as stated: apply_modifier(m) returns a new vector whose attack,
   defense, speed, special_attack, special_defense and max_hp each equal
   floor(old * multiplier + bonus); the receiver is unmodified and the result
   is a distinct object. *)
C10_Original ==
    call.op = "apply_modifier" =>
        /\ \A f \in ScaledFields :
              IsFloorOf(heap[call.target][f], Scaled(prev, modifier, f))
        /\ heap["self"] = prev
        /\ call.target # "self"

(* C10 amended: each of the six stats equals old * multiplier + bonus
   (multiplication first, per stat) truncated toward zero, as int() does; the
   receiver is unmodified and the result is a distinct object. *)
C10_ApplyModifier ==
    call.op = "apply_modifier" =>
        /\ \A f \in ScaledFields :
              IsTruncOf(heap[call.target][f], Scaled(prev, modifier, f))
        /\ heap["self"] = prev
        /\ call.target # "self"

(* A debuff took a stat to a negative fractional value, which int() rounds
   toward zero. *)
C10_Witness ==
    /\ call.op = "apply_modifier"
    /\ modifier.name = "Curse"
    /\ prev.attack = 1
    /\ heap[call.target].attack = -1
    /\ heap["self"] = prev

(* C11 (as stated): for every vector v with 0 <= hp <= max_hp, applying the
   all-default modifier returns a vector equal to v in all seven fields. *)
DefaultModifier == StatModifier("Modifier", -1, 10, 0, 10, 0, 10, 0, 10, 0, 10, 0, 10, 0)
DefaultApplied ==
    /\ call.op = "apply_modifier"
    /\ modifier = DefaultModifier
    /\ 0 <= prev.hp /\ prev.hp <= prev.max_hp
C11_Original ==
    DefaultApplied => heap["modified"] = prev

(* C11 (amended): for every vector v with 0 <= hp <= max_hp, applying the
   all-default modifier returns a vector equal to v in the six fields other
   than hp, whose hp is v.hp or v.hp - 1 (rounding of the hp-ratio rescale),
   and is v.hp when v is at zero or at full health; v itself is unchanged. *)
C11_ApplyDefault ==
    DefaultApplied =>
        /\ \A f \in OtherFields : heap["modified"][f] = prev[f]
        /\ heap["modified"].hp \in {prev.hp - 1, prev.hp}
        /\ prev.hp \in {0, prev.max_hp} => heap["modified"].hp = prev.hp
        /\ heap["self"] = prev
(* The default modifier applied to a vector whose hp the rescale rounds down. *)
C11_Witness ==
    /\ DefaultApplied
    /\ prev.hp > 0
    /\ heap["modified"].hp = prev.hp - 1

(* The results calculate_stats_at_level has returned so far. *)
Computed == {g \in {"first", "second"} : ret[g] # NoStats}

(* C12 (as stated): for every base vector (one with hp < max_hp included),
   every growth profile and every curve tag, calculate_stats_at_level(base, 1)
   equals base in all seven fields, hp included. *)
C12_Original ==
    call.op = "calculate_stats_at_level" =>
        \A g \in Computed : ret[g].level = 1 => ret[g].stats = heap["self"]

(* C12 (amended): calculate_stats_at_level(base, 1) equals base in the six
   fields other than hp, and its hp is base.max_hp, for every profile and
   curve tag: it equals base in all seven fields exactly when base is at
   full health. *)
C12_LevelOne ==
    call.op = "calculate_stats_at_level" =>
        \A g \in Computed : ret[g].level = 1 =>
            /\ \A f \in OtherFields : ret[g].stats[f] = heap["self"][f]
            /\ ret[g].stats.hp = heap["self"].max_hp
            /\ (ret[g].stats = heap["self"]) <=> (heap["self"].hp = heap["self"].max_hp)
(* Level 1 computed for a damaged base, after a higher level was computed. *)
C12_Witness ==
    /\ call.op = "calculate_stats_at_level"
    /\ call.level = 1
    /\ heap["self"].hp < heap["self"].max_hp
    /\ ret[call.target].stats.hp = heap["self"].max_hp
    /\ growth[call.target].growth_curve = "slow"

(* The specification's curve multipliers, in tenths. *)
CurveMultiplier(tag) ==
    CASE tag = "slow" -> 8 [] tag = "medium_slow" -> 9
      [] tag = "medium_fast" -> 10 [] tag = "fast" -> 12 [] OTHER -> 10
(* base + rate * (level - 1) * multiplier, in hundredths. *)
GrownHundredths(base, rate, level, tag) ==
    base * 100 + rate * (level - 1) * CurveMultiplier(tag)
RateOf(g, f) ==
    CASE f = "max_hp" -> g.hp_growth [] f = "attack" -> g.attack_growth
      [] f = "defense" -> g.defense_growth [] f = "speed" -> g.speed_growth
      [] f = "special_attack" -> g.special_attack_growth
      [] f = "special_defense" -> g.special_defense_growth
GrownOf(g, f) ==
    GrownHundredths(heap["self"][f], RateOf(growth[g], f), ret[g].level,
                    growth[g].growth_curve)

(* C13 (as stated): the result is determined by (base, level, profile) only,
   each field being floor(base.field + rate.field * (level - 1) * multiplier),
   hp and max_hp both from base.max_hp and the hp rate, whatever calls came
   before; base is never modified. *)
C13_Original ==
    \A g \in Computed :
        /\ \A f \in OtherFields : ret[g].stats[f] = GrownOf(g, f) \div 100
        /\ ret[g].stats.hp = GrownOf(g, "max_hp") \div 100
        /\ heap["self"] = prev

(* C13 (amended): as stated, with each field being
   int(base.field + rate.field * (level - 1) * multiplier), the value
   truncated toward zero (the floor when the value is not negative). *)
C13_NonCumulative ==
    \A g \in Computed :
        /\ \A f \in OtherFields : ret[g].stats[f] = PyInt(GrownOf(g, f), 100)
        /\ ret[g].stats.hp = PyInt(GrownOf(g, "max_hp"), 100)
        /\ ret[g].stats.hp = ret[g].stats.max_hp
        /\ heap["self"] = prev
(* A lower level computed on an object that shares its base with one that
   computed a higher level, with a fractional per-level gain. *)
C13_Witness ==
    /\ call.op = "calculate_stats_at_level"
    /\ Computed = {"first", "second"}
    /\ call.target = "first"
    /\ ret["first"].level = 3
    /\ ret["second"].level = 4
    /\ growth["first"].growth_curve = "slow"
    /\ growth["first"].attack_growth = 15
    /\ ret["first"].stats.attack = heap["self"].attack + 2

(* Two profiles that differ only in curve tag, "fast" and "slow", computed at
   the same level > 1. *)
FastAndSlow ==
    /\ Computed = {"first", "second"}
    /\ growth["first"].growth_curve = "fast"
    /\ growth["second"].growth_curve = "slow"
    /\ ret["first"].level = ret["second"].level
    /\ ret["first"].level > 1

(* C14 (as stated): for every base, every attack rate and every level > 1,
   the attack computed with curve "fast" is strictly greater than the attack
   computed with curve "slow". *)
C14_Original ==
    FastAndSlow => ret["first"].stats.attack > ret["second"].stats.attack

(* C14 (amended): for every base, every attack rate >= 0 and every level > 1,
   the attack computed with "fast" is at least the attack computed with
   "slow", and strictly greater whenever rate * (level - 1) >= 2.5. *)
C14_FastDominates ==
    FastAndSlow /\ growth["first"].attack_growth >= 0 =>
        /\ ret["first"].stats.attack >= ret["second"].stats.attack
        /\ 10 * growth["first"].attack_growth * (ret["first"].level - 1) >= 25 * MultDen
             => ret["first"].stats.attack > ret["second"].stats.attack
(* Fast and slow at the same level with a strictly greater fast attack. *)
C14_Witness ==
    /\ FastAndSlow
    /\ growth["first"].attack_growth = 20
    /\ ret["first"].level = MaxLevel
    /\ ret["first"].stats.attack > ret["second"].stats.attack

(* C15: for any two parents, breed(parent1, parent2, name) returns a new
   creature at level 1, with the given name, whose species is the species of
   parent1 or of parent2. *)
C15_BreedOffspring ==
    call.op = "breed" =>
        /\ ret.level = 1
        /\ ret.name = call.offspring_name
        /\ ret.creature_type \in {call.parent1.creature_type, call.parent2.creature_type}
        /\ ret \notin {call.parent1, call.parent2}
(* Parents of different species above level 1; the offspring took the
   species of parent2. *)
C15_Witness ==
    /\ call.op = "breed"
    /\ call.parent1.creature_type # call.parent2.creature_type
    /\ call.parent1.level > 1 /\ call.parent2.level > 1
    /\ ret.creature_type = call.parent2.creature_type
    /\ ret.level = 1

(* C16: every inherited stat equals max(1, avg + d) for some integer d with
   -floor(avg/10) <= d <= floor(avg/10), avg = floor((p1 + p2) / 2); the
   variation below the average is never larger than floor(avg/10) and no
   inherited stat is below 1. *)
C16_VariationBound ==
    call.op = "breed" =>
        \A i \in 1 .. Len(StatFields) :
            LET p1 == call.parent1.base_stats[ParentField(i)]
                p2 == call.parent2.base_stats[ParentField(i)]
                avg == (p1 + p2) \div 2
                value == ret.base_stats[StatFields[i]]
            IN  /\ \E d \in (-(avg \div 10)) .. (avg \div 10) :
                      value = IF avg + d < 1 THEN 1 ELSE avg + d
                /\ avg - value <= avg \div 10
                /\ value >= 1

(* C17: the offspring starts undamaged: whatever the random draws, the
   inherited vector has hp == max_hp. *)
C17_Undamaged ==
    call.op = "breed" => ret.base_stats.hp = ret.base_stats.max_hp

(* The trait names of the model: the names the traits are constructed with,
   and those names followed by " (Mutated)" once or twice. *)
BaseTraitNames == {SwiftTrait.name, StrongTrait.name}
MutatedName(n) == n \o " (Mutated)"
ContainsMutated(n) ==
    \E b \in BaseTraitNames : n \in {MutatedName(b), MutatedName(MutatedName(b))}
ParentTraits ==
    {call.parent1.traits[i] : i \in DOMAIN call.parent1.traits}
      \cup {call.parent2.traits[i] : i \in DOMAIN call.parent2.traits}
OffspringTraits == {ret.traits[i] : i \in DOMAIN ret.traits}
AllMutated ==
    \A t \in OffspringTraits : \E q \in ParentTraits : t.name = MutatedName(q.name)

(* C18 (as stated): with mutation_rate 0.0 no offspring trait name contains
   "(Mutated)", for every pair of parents; with mutation_rate 1.0 every
   offspring trait is a mutated trait, named after a parent trait followed by
   " (Mutated)". *)
C18_Original ==
    call.op = "breed" =>
        /\ genetics.mutation_rate = 0 =>
              \A t \in OffspringTraits : ~ContainsMutated(t.name)
        /\ genetics.mutation_rate = 10 => AllMutated

(* C18 (amended): with mutation_rate 0.0 every offspring trait is a trait of
   a parent, unchanged, so that an offspring trait name contains "(Mutated)"
   only if a parent's trait name already does; with mutation_rate 1.0 every
   offspring trait is a mutated trait, named after a parent trait followed by
   " (Mutated)". *)
C18_Mutation ==
    call.op = "breed" =>
        /\ genetics.mutation_rate = 0 =>
              /\ OffspringTraits \subseteq ParentTraits
              /\ \A t \in OffspringTraits :
                    ContainsMutated(t.name) =>
                        \E q \in ParentTraits : q.name = t.name
        /\ genetics.mutation_rate = 10 => AllMutated
(* Two traits inherited at rate 1.0, both mutated. *)
C18_Witness ==
    /\ call.op = "breed"
    /\ genetics.mutation_rate = 10
    /\ Len(ret.traits) = 2
    /\ AllMutated

(* The first occurrence of each name in a list of traits, in order. *)
FirstOccurrences(traits) ==
    LET first == {i \in DOMAIN traits :
                     \A j \in 1 .. (i - 1) : traits[j].name # traits[i].name}
    IN  [k \in 1 .. Cardinality(first) |-> traits[KthIndex(first, k)]]

(* C19: the offspring's traits have pairwise-distinct names and are the
   inherited-and-mutated traits, in parent1-then-parent2 order, with only the
   first occurrence of each name kept; so a mutated and a non-mutated version
   of the same base trait name never both appear in one offspring. *)
C19_Dedup ==
    call.op = "breed" =>
        /\ \A i, j \in DOMAIN ret.traits :
              i # j => ret.traits[i].name # ret.traits[j].name
        /\ ret.traits = FirstOccurrences(prev)
        /\ ~ \E i, j \in DOMAIN ret.traits :
                ret.traits[j].name = MutatedName(ret.traits[i].name)

(* C20: across any sequence of register_creature_type, add_evolution_path,
   get_available_evolutions, can_evolve and evolve calls, the registry only
   grows: a registered name stays registered and maps to the definition most
   recently registered under it; the path list changes only by appending at
   its end; the queries and evolve never modify the registry. *)
C20_RegistryStep ==
    /\ DOMAIN creature_types \subseteq DOMAIN creature_types'
    /\ IF call'.op = "register_creature_type"
       THEN /\ DOMAIN creature_types' = DOMAIN creature_types \cup {call'.creature_type.name}
            /\ creature_types'[call'.creature_type.name] = call'.creature_type
            /\ \A n \in DOMAIN creature_types :
                  n # call'.creature_type.name => creature_types'[n] = creature_types[n]
       ELSE creature_types' = creature_types
    /\ IF call'.op = "add_evolution_path"
       THEN /\ Len(evolution_paths') = Len(evolution_paths) + 1
            /\ evolution_paths'[Len(evolution_paths')] = call'.path
            /\ \A i \in DOMAIN evolution_paths : evolution_paths'[i] = evolution_paths[i]
       ELSE evolution_paths' = evolution_paths
    /\ call'.op \in {"register_creature_type", "add_evolution_path",
                     "get_available_evolutions", "can_evolve", "evolve"}
C20_RegistryGrows == [][C20_RegistryStep]_vars
(* A "Warrior" definition was registered over names already registered, with
   the path list full, and an evolution has been performed since. *)
C20_Witness ==
    /\ call.op = "evolve"
    /\ ret.success
    /\ DOMAIN creature_types = {"Newborn", "Warrior", "Speedster"}
    /\ creature_types["Warrior"] = TestWarriorType
    /\ Len(evolution_paths) = MaxPaths

(* The message evolve returns when the chosen path's target is not registered. *)
TargetNotFound(path) == Failure("Target type '" \o path.to_type \o "' not found")

(* The path an evolve call with argument evolution_path on creature c is
   decided on. *)
PathDecided(evolution_path, c) ==
    IF evolution_path = NoPath THEN FirstQualifying(c) ELSE evolution_path

(* C22 as stated: every successful evolve changes the creature's species
   name, and the creature never again has a species name it had before. *)
C22_OriginalStep ==
    (call'.op = "evolve" /\ ret'.success) =>
        creature'.creature_type.name \notin lineage
C22_Original == [][C22_OriginalStep]_vars

(* C22: evolution is an immediate replacement of the species with no undo
   operation: a successful evolve on a path that starts at the creature's
   species makes the creature's species the definition registered under the
   path's to_type, so the species name changes exactly when to_type differs
   from from_type (a path back to an earlier species, or from a species to
   itself, is accepted); and nothing but a successful evolve changes the
   creature's species. *)
C22_ReplacementStep ==
    /\ (call'.op = "evolve" /\ ret'.success) =>
          /\ PathDecided(call'.path, creature).from_type = creature.creature_type.name
          /\ creature'.creature_type =
                creature_types[PathDecided(call'.path, creature).to_type]
          /\ creature'.creature_type.name = PathDecided(call'.path, creature).to_type
          /\ (creature'.creature_type.name # creature.creature_type.name)
                <=> (PathDecided(call'.path, creature).to_type
                        # PathDecided(call'.path, creature).from_type)
    /\ creature'.creature_type # creature.creature_type =>
          (call'.op = "evolve" /\ ret'.success)
C22_Replacement == [][C22_ReplacementStep]_vars

(* The creature evolved from Warrior back to Newborn, the species it started
   as. *)
C22_Witness ==
    /\ call.op = "evolve" /\ ret.success
    /\ prev.creature_type.name = "Warrior"
    /\ creature.creature_type.name = "Newborn"
    /\ lineage = {"Newborn", "Warrior"}

(* C23: evolve with a supplied path succeeds only if the path is one of the
   registry's paths and the creature qualifies for it. *)
C23_Original ==
    (call.op = "evolve" /\ call.path # NoPath /\ ret.success) =>
        /\ \E i \in DOMAIN evolution_paths : evolution_paths[i] = call.path
        /\ CanEvolve(call.path, prev)

(* C24: while the to_type of a qualifying path is not registered, evolve on
   that path returns the target-not-found failure and changes neither the
   creature nor the registry; registering the target afterwards leaves the
   path list and the creature as they are, and the same evolve call then
   succeeds. *)
C24_LateTargetStep ==
    /\ ( /\ call'.op = "evolve"
         /\ call'.path = NoPath => QualifyingIndices(creature) # {}
         /\ CanEvolve(PathDecided(call'.path, creature), creature)
         /\ PathDecided(call'.path, creature).to_type \notin DOMAIN creature_types )
       => /\ ret' = TargetNotFound(PathDecided(call'.path, creature))
          /\ creature' = creature
          /\ creature_types' = creature_types
          /\ evolution_paths' = evolution_paths
    /\ ( /\ call.op = "evolve"
         /\ ~ret.success
         /\ call.path = NoPath => QualifyingIndices(creature) # {}
         /\ ret = TargetNotFound(PathDecided(call.path, creature))
         /\ call'.op = "register_creature_type"
         /\ call'.creature_type.name = PathDecided(call.path, creature).to_type )
       => /\ evolution_paths' = evolution_paths
          /\ creature' = creature
          /\ Evolve(creature_types', evolution_paths', creature', call.path).ret.success
          /\ Evolve(creature_types', evolution_paths', creature', call.path)
                .creature.creature_type = call'.creature_type
C24_LateTarget == [][C24_LateTargetStep]_vars

(* A damaged creature's automatic evolve failed on a registered path whose
   target is not registered. *)
C24_Witness ==
    /\ call.op = "evolve" /\ call.path = NoPath
    /\ QualifyingIndices(prev) # {}
    /\ ret = TargetNotFound(FirstQualifying(prev))
    /\ creature = prev
    /\ creature.stats.hp < creature.stats.max_hp

(* C29: a failing evolve leaves the creature (species, level, base stats,
   stats with hp, energy, traits) and the registry as they were. *)
C29_FailureStep ==
    (call'.op = "evolve" /\ ~ret'.success) =>
        /\ creature' = creature
        /\ creature_types' = creature_types
        /\ evolution_paths' = evolution_paths
C29_FailureFrame == [][C29_FailureStep]_vars

(* An evolve on a supplied path failed on a damaged, drained creature. *)
C29_Witness ==
    /\ call.op = "evolve" /\ call.path # NoPath
    /\ ret = Failure("Evolution conditions not met")
    /\ creature = prev
    /\ creature.stats.hp < creature.stats.max_hp
    /\ creature.energy < creature.max_energy

(* C30: evolve without a path succeeds iff some registered path qualifies
   and the to_type of the first qualifying path is registered; when that
   to_type is not registered it returns the target-not-found failure, even
   if a later qualifying path has a registered target. *)
C30_NoFallback ==
    (call.op = "evolve" /\ call.path = NoPath) =>
        /\ ret.success <=>
              /\ QualifyingIndices(prev) # {}
              /\ FirstQualifying(prev).to_type \in DOMAIN creature_types
        /\ ( /\ QualifyingIndices(prev) # {}
             /\ FirstQualifying(prev).to_type \notin DOMAIN creature_types )
           => ret = TargetNotFound(FirstQualifying(prev))

(* An automatic evolve failed although can_evolve is true and a later
   qualifying path has a registered target. *)
C30_Witness ==
    /\ call.op = "evolve" /\ call.path = NoPath
    /\ ~ret.success
    /\ SystemCanEvolve(evolution_paths, prev)
    /\ \E i, j \in QualifyingIndices(prev) :
          /\ i < j
          /\ evolution_paths[i].to_type \notin DOMAIN creature_types
          /\ evolution_paths[j].to_type \in DOMAIN creature_types

(* The bounds of a StatVector: 0 <= hp <= max_hp, the other fields >= 0. *)
WithinBounds(s) ==
    /\ 0 <= s.hp /\ s.hp <= s.max_hp
    /\ s.attack >= 0 /\ s.defense >= 0 /\ s.speed >= 0
    /\ s.special_attack >= 0 /\ s.special_defense >= 0

(* C25: a constructed vector has hp <= max_hp, and every vector heal,
   take_damage or apply_modifier produces from a vector within the bounds is
   within the bounds again. *)
C25_Bounds ==
    /\ call = NoCall => heap["self"].hp <= heap["self"].max_hp
    /\ (call.op \in {"heal", "take_damage", "apply_modifier"} /\ WithinBounds(prev))
          => WithinBounds(heap[call.target])

(* C26 as stated: the result's hp is floor(max_hp' * hp / max_hp), and
   max_hp' when the receiver's max_hp is 0. *)
C26_Original ==
    call.op = "apply_modifier" =>
        heap["modified"].hp =
            IF prev.max_hp = 0 THEN heap["modified"].max_hp
            ELSE (heap["modified"].max_hp * prev.hp) \div prev.max_hp

(* The exact quotient max_hp' * hp / max_hp, truncated toward zero. *)
ExactRescale(new_max_hp, hp, max_hp) == PyInt(new_max_hp * hp, max_hp)

(* C26: apply_modifier rescales hp, it does not copy it: hp' is
   int(max_hp' * (hp / max_hp)) in double arithmetic.  That is the exact
   quotient max_hp' * hp / max_hp truncated toward zero (its floor when
   max_hp' >= 0) whenever the quotient is not a whole number; when it is a
   whole number q, hp' is q or one nearer to zero, and it is q when hp is 0
   or hp equals max_hp.  When the receiver's max_hp is 0 the ratio is 1.0
   and hp' = max_hp'. *)
C26_Rescale ==
    call.op = "apply_modifier" =>
        IF prev.max_hp = 0 THEN heap["modified"].hp = heap["modified"].max_hp
        ELSE IF (heap["modified"].max_hp * prev.hp) % prev.max_hp # 0
                \/ prev.hp = 0 \/ prev.hp = prev.max_hp
        THEN heap["modified"].hp =
                ExactRescale(heap["modified"].max_hp, prev.hp, prev.max_hp)
        ELSE heap["modified"].hp \in
                { ExactRescale(heap["modified"].max_hp, prev.hp, prev.max_hp),
                  ExactRescale(heap["modified"].max_hp, prev.hp, prev.max_hp)
                     - (IF heap["modified"].max_hp >= 0 THEN 1 ELSE -1) }

(* A partly damaged vector got a different max_hp and, with it, a different
   hp. *)
C26_Witness ==
    /\ call.op = "apply_modifier"
    /\ 0 < prev.hp /\ prev.hp < prev.max_hp
    /\ heap["modified"].max_hp > prev.max_hp
    /\ heap["modified"].hp > prev.hp
    /\ heap["modified"].hp < heap["modified"].max_hp

(* C27 as stated: hp > 0 and max_hp' > 0 give hp' > 0, and hp == max_hp
   gives hp' == max_hp'. *)
C27_Original ==
    call.op = "apply_modifier" =>
        /\ (prev.hp > 0 /\ heap["modified"].max_hp > 0) => heap["modified"].hp > 0
        /\ prev.hp = prev.max_hp => heap["modified"].hp = heap["modified"].max_hp

(* C27: a vector at full health (hp == max_hp) yields hp' == max_hp'; a
   vector with hp > 0 whose result has max_hp' > 0 yields hp' >= 0, and
   hp' > 0 whenever max_hp' * hp >= 2 * max_hp.  Below that the truncation
   of the rescale can bring hp' to 0, so is_alive is not preserved. *)
C27_HealthStanding ==
    call.op = "apply_modifier" =>
        /\ prev.hp = prev.max_hp => heap["modified"].hp = heap["modified"].max_hp
        /\ (prev.hp > 0 /\ heap["modified"].max_hp > 0) =>
              /\ heap["modified"].hp >= 0
              /\ heap["modified"].max_hp * prev.hp >= 2 * prev.max_hp
                    => heap["modified"].hp > 0

(* A living vector's result has a positive max_hp and hp 0. *)
C27_Witness ==
    /\ call.op = "apply_modifier"
    /\ prev.hp > 0
    /\ heap["modified"].max_hp > 0
    /\ heap["modified"].hp = 0

(* Trait t is trait q mutated with the factor f (in tenths). *)
IsMutationOf(t, q, f) ==
    /\ t.name = q.name \o " (Mutated)"
    /\ t.strength_modifier = q.strength_modifier * f
    /\ t.speed_modifier = q.speed_modifier * f
    /\ t.defense_modifier = q.defense_modifier * f
    /\ t.den = q.den * MultDen
    /\ t.trait_type = q.trait_type
    /\ t.rarity = q.rarity

(* C28: every trait a mutation produces (at mutation_rate 1.0: every trait
   inherited) has the three modifiers of a parent's trait multiplied by one
   shared factor between 0.9 and 1.1, that trait's name followed by
   " (Mutated)" and that trait's trait_type and rarity; the parents' traits
   are as they were constructed. *)
C28_MutateTrait ==
    (call.op = "breed" /\ genetics.mutation_rate = 10) =>
        /\ \A i \in DOMAIN prev :
              \E q \in ParentTraits, f \in 9 .. 11 : IsMutationOf(prev[i], q, f)
        /\ call.parent1 \in ParentPool
        /\ call.parent2 \in ParentPool

(* Two traits with different modifiers, trait_type and rarity were mutated
   with factors other than 1.0 in one breeding. *)
C28_Witness ==
    /\ call.op = "breed" /\ genetics.mutation_rate = 10
    /\ \E i, j \in DOMAIN prev :
          /\ IsMutationOf(prev[i], SwiftTrait, 9)
          /\ IsMutationOf(prev[j], StrongTrait, 11)

(* C21: for each value type, from_dict(obj.to_dict()) equals obj in every
   field: Stats with hp <= max_hp, StatModifier with duration -1, 0 or
   positive, StatGrowth with its six rates and curve, EvolutionPath with
   from_type, to_type, min_level, required_traits and conditions. *)
C21_RoundTrip ==
    (call.op = "from_dict" /\ (call.type = "Stats" => prev.hp <= prev.max_hp))
        => ret = prev

(* Restored equal to their originals: a path with required traits and
   conditions, and an expired, a permanent and a running modifier. *)
C21_Witness ==
    /\ call.op = "from_dict"
    /\ ret = prev
    /\ \/ /\ call.type = "EvolutionPath"
          /\ prev.required_traits # <<>>
          /\ prev.conditions # EmptyDict
       \/ /\ call.type = "StatModifier"
          /\ prev.duration > 0
          /\ prev.max_hp_bonus < 0

====
